---- MODULE Spec2Model ----
(***************************************************************************)
(* A model of src/main.rs of yupferris/mocap: build_mocap / build_joint    *)
(* (extract a channel's column, quantize it, search the LPC coefficients   *)
(* exhaustively and keep the residuals) followed by build_bvh /            *)
(* build_bvh_joint (replay the predictor, dequantize, push the samples     *)
(* back into the frame matrix).                                            *)
(*                                                                         *)
(* Numbers.  Samples are f64 in the source.  The model draws them from     *)
(* integers, all of which are exact f64 values; on them the f64            *)
(* subtraction and comparisons are exact.  The quantizer's                 *)
(* ((v - min) / range) * (2^bits - 1) rounds twice in f64 before the cast  *)
(* truncates; for integer v - min <= range < 400 and the bit widths used   *)
(* here the truncated result equals the exact floor (an exhaustive         *)
(* computation outside the model), which is what Quantize computes.  The   *)
(* narrowing of value_range_min and value_range to f32 is modelled by F32  *)
(* (round to a 24 bit significand, ties to even).  A dequantized sample    *)
(* is kept as the exact rational base + num / den.  i16 / u16 / u8 / i8    *)
(* casts wrap as in Rust; the i16 subtraction and addition panic when the  *)
(* build has overflow checks (debug) and wrap when it has not (release).   *)
(* The i64 error accumulator is kept as [hi, lo], error = hi * 2^30 + lo.  *)
(*                                                                         *)
(* Joint names and offsets take no part in the coding and are left out.    *)
(* The parsed input is taken as the parser delivers it: num_frames is the  *)
(* number of rows of the matrix and every row holds one sample per channel *)
(* of the skeleton.  The three constants of lines 22-25 are compile-time   *)
(* constants; cfg holds the values the program was built with, so that the *)
(* documented ranges can be explored next to the shipped values.           *)
(***************************************************************************)
EXTENDS Integers, Sequences, FiniteSets, TLC

VARIABLES
    cfg,               \* the three compile-time constants [bits, order, cbits]
    checks,            \* TRUE: overflow checks compiled in (debug build)
    bvh,               \* the parsed input [root, frames]
    pc,                \* where the program is
    abort,             \* the panic message once pc = "panic"
    channel_index,     \* build_mocap's column cursor
    stack,             \* the recursion of build_joint, then of build_bvh_joint
    values,            \* build_joint's values: the samples, then the quantized values
    value_range_min,   \* build_joint's value_range_min (f64)
    value_range,       \* build_joint's value_range (f64)
    packed_coefficients, \* the search loop's counter
    cand,              \* the last candidate's (error, coefficients, residuals)
    best,              \* Option: <<>> is None, <<b>> is Some(b)
    mocap,             \* Option: the Mocap build_mocap returned
    frames,            \* build_bvh's frames, the reconstructed matrix
    output             \* Option: the bvh::Bvh build_bvh returned

vars == <<cfg, checks, bvh, pc, abort, channel_index, stack, values,
          value_range_min, value_range, packed_coefficients, cand, best,
          mocap, frames, output>>

----------------------------------------------------------------------------
(* The shipped constants. *)

CHANNEL_QUANTIZATION_BITS == 7

CHANNEL_LPC_ORDER == 1

CHANNEL_LPC_COEFFICIENT_BITS == 8

ShippedConfig ==
    [bits  |-> CHANNEL_QUANTIZATION_BITS,
     order |-> CHANNEL_LPC_ORDER,
     cbits |-> CHANNEL_LPC_COEFFICIENT_BITS]

----------------------------------------------------------------------------
(* Machine arithmetic. *)

RECURSIVE Pow2(_)
Pow2(n) == IF n = 0 THEN 1 ELSE 2 * Pow2(n - 1)

\* x >> n on a signed integer: the arithmetic shift rounds towards minus infinity
Shr(x, n) == x \div Pow2(n)

\* x as i16
ToI16(x) == LET m == x % 65536 IN IF m >= 32768 THEN m - 65536 ELSE m

\* x as u16
ToU16(x) == x % 65536

InI16(x) == x >= -32768 /\ x <= 32767

\* (1 << CHANNEL_QUANTIZATION_BITS) - 1
QuantMax == Pow2(cfg.bits) - 1

\* 1 << (CHANNEL_LPC_ORDER * CHANNEL_LPC_COEFFICIENT_BITS)
NumCandidates == Pow2(cfg.order * cfg.cbits)

Abs(x) == IF x < 0 THEN -x ELSE x

\* the power of two u with a \div u < 2^24: the spacing of f32 at magnitude a
RECURSIVE F32Unit(_, _)
F32Unit(a, u) == IF a \div u < 16777216 THEN u ELSE F32Unit(a, 2 * u)

F32Nat(a) ==
    LET u == F32Unit(a, 1)
        q == a \div u
        r == a % u
    IN  IF 2 * r > u \/ (2 * r = u /\ q % 2 = 1) THEN (q + 1) * u ELSE q * u

\* x as f32 (line 145, 146), for an integer x: round to nearest, ties to even
F32(x) == IF x < 0 THEN -F32Nat(-x) ELSE F32Nat(x)

\* the i64 accumulator, error = hi * 2^30 + lo with 0 <= lo < 2^30
WideZero == [hi |-> 0, lo |-> 0]

WideAdd(e, n) ==
    LET s == e.lo + n
    IN  [hi |-> e.hi + s \div 1073741824, lo |-> s % 1073741824]

WideLess(a, b) == a.hi < b.hi \/ (a.hi = b.hi /\ a.lo < b.lo)

----------------------------------------------------------------------------
(* build_joint, one channel: quantization (lines 69-84). *)

RECURSIVE SeqMin(_), SeqMax(_)
SeqMin(s) ==
    IF Len(s) = 1 THEN s[1]
    ELSE LET m == SeqMin(Tail(s)) IN IF m < s[1] THEN m ELSE s[1]

SeqMax(s) ==
    IF Len(s) = 1 THEN s[1]
    ELSE LET m == SeqMax(Tail(s)) IN IF m > s[1] THEN m ELSE s[1]


\* lines 80-84 scaled by 2^bits for 2^bits - 1
QuantizeFullScale(value, min, range) ==
    IF range > 0 THEN ((value - min) * (QuantMax + 1)) \div range ELSE 0

\* the closure of line 80-84, for one sample
Quantize(value, min, range) ==
    IF range > 0 THEN ((value - min) * QuantMax) \div range ELSE 0

----------------------------------------------------------------------------
(* build_joint, one channel: one candidate of the search (lines 88-117). *)

\* line 90: tap k (from 0) takes bits [k * cbits, (k + 1) * cbits) of packed
UnpackCoefficients(packed) ==
    [k \in 1..cfg.order |->
        Shr(packed, (k - 1) * cfg.cbits) % Pow2(cfg.cbits)]


\* line 102 without the sign extension: the coefficient taken as unsigned
SignExtendMissing(c) == c

\* ((c << (8 - cbits)) as i8) >> (8 - cbits)
SignExtend(c) ==
    LET s == 8 - cfg.cbits
        u8 == (c * Pow2(s)) % 256
        i8 == IF u8 >= 128 THEN u8 - 256 ELSE u8
    IN  Shr(i8, s)

RECURSIVE SumTaps(_, _, _)
SumTaps(previous_values, coefficients, k) ==
    IF k = 0 THEN 0
    ELSE SumTaps(previous_values, coefficients, k - 1)
         + Shr(previous_values[k] * SignExtend(coefficients[k]), cfg.cbits - 1)

\* lines 100-104
EncoderPrediction(previous_values, coefficients) ==
    SumTaps(previous_values, coefficients, cfg.order)

\* lines 111-116 and 205-210
PushPrevious(previous_values, value) ==
    [k \in 1..cfg.order |-> IF k = 1 THEN value ELSE previous_values[k - 1]]

ZeroWindow == [k \in 1..cfg.order |-> 0]

\* lines 97-117: the frames from i on; acc holds the loop's variables and, in
\* predictions and overflow, what happened on the way
RECURSIVE EncodeFrames(_, _, _, _)
EncodeFrames(coefficients, vals, i, acc) ==
    IF i > Len(vals) THEN acc
    ELSE
        LET value == vals[i]
            prediction == EncoderPrediction(acc.previous_values, coefficients)
            diff == ToI16(value) - ToI16(prediction)
            residual == ToI16(diff)
        IN  EncodeFrames(coefficients, vals, i + 1,
                [previous_values |-> PushPrevious(acc.previous_values, value),
                 error       |-> WideAdd(acc.error, residual * residual),
                 residuals   |-> Append(acc.residuals, residual),
                 predictions |-> Append(acc.predictions, prediction),
                 overflow    |-> acc.overflow \/ ~InI16(diff)])

\* lines 88-117 for one packed coefficient integer
RunCandidate(packed, vals) ==
    LET coefficients == UnpackCoefficients(packed)
        r == EncodeFrames(coefficients, vals, 1,
                [previous_values |-> ZeroWindow, error |-> WideZero,
                 residuals |-> <<>>, predictions |-> <<>>, overflow |-> FALSE])
    IN  [error |-> r.error, coefficients |-> coefficients,
         residuals |-> r.residuals, predictions |-> r.predictions,
         overflow |-> r.overflow]


\* lines 119-128 with the comparison turned round: the larger error is kept
BestUpdateKeepsLarger(b, c) ==
    IF b = <<>> THEN <<c>>
    ELSE IF WideLess(b[1].error, c.error) THEN <<c>> ELSE b

\* lines 119-128 with <= for <: among equal errors the last one is kept
BestUpdateLastWins(b, c) ==
    IF b = <<>> THEN <<c>>
    ELSE IF ~WideLess(b[1].error, c.error) THEN <<c>> ELSE b

\* lines 119-128
BestUpdate(b, c) ==
    IF b = <<>> THEN <<c>>
    ELSE IF WideLess(c.error, b[1].error) THEN <<c>> ELSE b

----------------------------------------------------------------------------
(* build_bvh_joint, one channel (lines 192-211). *)


RECURSIVE SumTapsFullShift(_, _, _)
SumTapsFullShift(previous_values, coefficients, k) ==
    IF k = 0 THEN 0
    ELSE SumTapsFullShift(previous_values, coefficients, k - 1)
         + Shr(previous_values[k] * SignExtend(coefficients[k]), cfg.cbits)

\* lines 196-200 with the shift by cbits for cbits - 1
DecoderPredictionFullShift(previous_values, coefficients) ==
    SumTapsFullShift(previous_values, coefficients, cfg.order)

\* lines 196-200
DecoderPrediction(previous_values, coefficients) ==
    SumTaps(previous_values, coefficients, cfg.order)

RECURSIVE DecodeFrames(_, _, _, _)
DecodeFrames(coefficients, residuals, i, acc) ==
    IF i > Len(residuals) THEN acc
    ELSE
        LET prediction == DecoderPrediction(acc.previous_values, coefficients)
            sum == ToI16(prediction) + residuals[i]
            value == ToU16(sum)
        IN  DecodeFrames(coefficients, residuals, i + 1,
                [previous_values |-> PushPrevious(acc.previous_values, value),
                 values   |-> Append(acc.values, value),
                 overflow |-> acc.overflow \/ ~InI16(sum)])

DecodeValues(coefficients, residuals) ==
    DecodeFrames(coefficients, residuals, 1,
        [previous_values |-> ZeroWindow, values |-> <<>>, overflow |-> FALSE])

\* line 203: value_range_min + (value / (2^bits - 1)) * value_range, exactly
Dequantize(channel, value) ==
    [base |-> channel.value_range_min,
     num  |-> value * channel.value_range,
     den  |-> QuantMax]

----------------------------------------------------------------------------
(* The skeleton and the two recursions. *)

\* a joint with sub-joints, and one with an end site (bvh::JointChildren)
Joints(chs, kids) ==
    [channels |-> chs, children |-> [kind |-> "Joints", joints |-> kids]]

EndSite(chs) ==
    [channels |-> chs, children |-> [kind |-> "EndSite", joints |-> <<>>]]

\* lines 137-144
ChannelTypeOf(channel) ==
    CASE channel = "XPosition" -> "TranslationX"
      [] channel = "YPosition" -> "TranslationY"
      [] channel = "ZPosition" -> "TranslationZ"
      [] channel = "XRotation" -> "RotationX"
      [] channel = "YRotation" -> "RotationY"
      [] channel = "ZRotation" -> "RotationZ"

\* lines 183-190
BvhChannelOf(type_) ==
    CASE type_ = "TranslationX" -> "XPosition"
      [] type_ = "TranslationY" -> "YPosition"
      [] type_ = "TranslationZ" -> "ZPosition"
      [] type_ = "RotationX" -> "XRotation"
      [] type_ = "RotationY" -> "YRotation"
      [] type_ = "RotationZ" -> "ZRotation"

\* one activation of build_joint or of build_bvh_joint: the joint it was
\* called on, the channels it has built and the children it has collected
Activation(joint) == [joint |-> joint, channels |-> <<>>, children |-> <<>>]

Top == stack[Len(stack)]

ReplaceTop(a) == [stack EXCEPT ![Len(stack)] = a]

\* the for loop over the joint's channels has an element left
ChannelsLeft == Len(Top.channels) < Len(Top.joint.channels)

\* the map over the joint's children has an element left
ChildrenLeft ==
    /\ Top.joint.children.kind = "Joints"
    /\ Len(Top.children) < Len(Top.joint.children.joints)

\* the value the activation returns (lines 154-162, 214-224)
Returned ==
    [channels |-> Top.channels,
     children |-> [kind |-> Top.joint.children.kind, joints |-> Top.children]]

\* the caller's activation after the callee returned
AfterReturn ==
    LET caller == stack[Len(stack) - 1]
    IN  [SubSeq(stack, 1, Len(stack) - 1) EXCEPT ![Len(stack) - 1] =
            [caller EXCEPT !.children = Append(caller.children, Returned)]]

Panic(message) ==
    /\ pc' = "panic"
    /\ abort' = message
    /\ UNCHANGED <<cfg, checks, bvh, channel_index, stack, values,
                   value_range_min, value_range, packed_coefficients, cand,
                   best, mocap, frames, output>>

----------------------------------------------------------------------------
(* build_mocap and build_joint. *)

\* lines 52-60, up to the call of build_joint on the root
build_mocap ==
    /\ pc = "start"
    /\ channel_index' = 0
    /\ stack' = <<Activation(bvh.root)>>
    /\ pc' = "build_joint"
    /\ UNCHANGED <<cfg, checks, bvh, abort, values, value_range_min,
                   value_range, packed_coefficients, cand, best, mocap,
                   frames, output>>

\* lines 65-68: the channel's column of every frame
build_joint_extract ==
    /\ pc = "build_joint"
    /\ ChannelsLeft
    /\ values' = [f \in 1..Len(bvh.frames) |-> bvh.frames[f][channel_index + 1]]
    /\ pc' = "quantize"
    /\ UNCHANGED <<cfg, checks, bvh, abort, channel_index, stack,
                   value_range_min, value_range, packed_coefficients, cand,
                   best, mocap, frames, output>>

\* lines 69-86: values[0] panics on an empty vector
build_joint_quantize ==
    /\ pc = "quantize"
    /\ IF values = <<>>
       THEN Panic("index out of bounds: the len is 0 but the index is 0")
       ELSE LET min == SeqMin(values)
                range == SeqMax(values) - min
            IN  /\ value_range_min' = min
                /\ value_range' = range
                /\ values' = [f \in 1..Len(values) |->
                                 Quantize(values[f], min, range)]
                /\ packed_coefficients' = 0
                /\ best' = <<>>
                /\ cand' = <<>>
                /\ pc' = "search"
                /\ UNCHANGED <<cfg, checks, bvh, abort, channel_index, stack,
                               mocap, frames, output>>

\* lines 87-129, one iteration: line 106 panics on overflow in a build with
\* overflow checks
build_joint_candidate ==
    /\ pc = "search"
    /\ packed_coefficients < NumCandidates
    /\ LET c == RunCandidate(packed_coefficients, values)
       IN  IF checks /\ c.overflow
           THEN Panic("attempt to subtract with overflow")
           ELSE /\ cand' = <<c>>
                /\ best' = BestUpdate(best, c)
                /\ packed_coefficients' = packed_coefficients + 1
                /\ UNCHANGED <<cfg, checks, bvh, pc, abort, channel_index,
                               stack, values, value_range_min, value_range,
                               mocap, frames, output>>

\* lines 130-151: best.unwrap() panics on None
build_joint_push ==
    /\ pc = "search"
    /\ packed_coefficients = NumCandidates
    /\ IF best = <<>>
       THEN Panic("called Option::unwrap() on a None value")
       ELSE LET channel ==
                    [type_ |-> ChannelTypeOf(
                                   Top.joint.channels[Len(Top.channels) + 1]),
                     value_range_min  |-> F32(value_range_min),
                     value_range      |-> F32(value_range),
                     lpc_coefficients |-> best[1].coefficients,
                     residuals        |-> best[1].residuals]
            IN  /\ stack' = ReplaceTop(
                       [Top EXCEPT !.channels = Append(@, channel)])
                /\ channel_index' = channel_index + 1
                /\ pc' = "build_joint"
                /\ UNCHANGED <<cfg, checks, bvh, abort, values,
                               value_range_min, value_range,
                               packed_coefficients, cand, best, mocap, frames,
                               output>>

\* line 159: the recursive call on the next child
build_joint_child ==
    /\ pc = "build_joint"
    /\ ~ChannelsLeft
    /\ ChildrenLeft
    /\ stack' = Append(stack,
           Activation(Top.joint.children.joints[Len(Top.children) + 1]))
    /\ UNCHANGED <<cfg, checks, bvh, pc, abort, channel_index, values,
                   value_range_min, value_range, packed_coefficients, cand,
                   best, mocap, frames, output>>

\* lines 154-162: return the Joint, to the caller's map or to build_mocap
build_joint_return ==
    /\ pc = "build_joint"
    /\ ~ChannelsLeft
    /\ ~ChildrenLeft
    /\ IF Len(stack) > 1
       THEN /\ stack' = AfterReturn
            /\ UNCHANGED <<pc, mocap>>
       ELSE /\ stack' = <<>>
            /\ mocap' = <<[num_frames |-> Len(bvh.frames), root |-> Returned]>>
            /\ pc' = "build_bvh"
    /\ UNCHANGED <<cfg, checks, bvh, abort, channel_index, values,
                   value_range_min, value_range, packed_coefficients, cand,
                   best, frames, output>>

----------------------------------------------------------------------------
(* build_bvh and build_bvh_joint. *)

\* lines 165-170, up to the call of build_bvh_joint on the root
build_bvh ==
    /\ pc = "build_bvh"
    /\ frames' = [f \in 1..mocap[1].num_frames |-> <<>>]
    /\ stack' = <<Activation(mocap[1].root)>>
    /\ pc' = "build_bvh_joint"
    /\ UNCHANGED <<cfg, checks, bvh, abort, channel_index, values,
                   value_range_min, value_range, packed_coefficients, cand,
                   best, mocap, output>>

\* lines 182-212, one channel: line 202 panics on overflow in a build with
\* overflow checks; frames[index] is pushed to for every residual
build_bvh_joint_channel ==
    /\ pc = "build_bvh_joint"
    /\ ChannelsLeft
    /\ LET channel == Top.joint.channels[Len(Top.channels) + 1]
           d == DecodeValues(channel.lpc_coefficients, channel.residuals)
       IN  IF checks /\ d.overflow
           THEN Panic("attempt to add with overflow")
           ELSE IF Len(channel.residuals) > Len(frames)
           THEN Panic("index out of bounds")
           ELSE /\ frames' = [f \in 1..Len(frames) |->
                                 IF f <= Len(channel.residuals)
                                 THEN Append(frames[f],
                                             Dequantize(channel, d.values[f]))
                                 ELSE frames[f]]
                /\ stack' = ReplaceTop([Top EXCEPT !.channels =
                                 Append(@, BvhChannelOf(channel.type_))])
                /\ UNCHANGED <<cfg, checks, bvh, pc, abort, channel_index,
                               values, value_range_min, value_range,
                               packed_coefficients, cand, best, mocap, output>>


\* line 219 moved before the loop over the channels: a child may be entered
\* while the joint's own channels are still to be written
build_bvh_joint_child_early ==
    /\ pc = "build_bvh_joint"
    /\ ChildrenLeft
    /\ stack' = Append(stack,
           Activation(Top.joint.children.joints[Len(Top.children) + 1]))
    /\ UNCHANGED <<cfg, checks, bvh, pc, abort, channel_index, values,
                   value_range_min, value_range, packed_coefficients, cand,
                   best, mocap, frames, output>>

\* line 219: the recursive call on the next child
build_bvh_joint_child ==
    /\ pc = "build_bvh_joint"
    /\ ~ChannelsLeft
    /\ ChildrenLeft
    /\ stack' = Append(stack,
           Activation(Top.joint.children.joints[Len(Top.children) + 1]))
    /\ UNCHANGED <<cfg, checks, bvh, pc, abort, channel_index, values,
                   value_range_min, value_range, packed_coefficients, cand,
                   best, mocap, frames, output>>

\* lines 214-224, and lines 168-177 when the root returns
build_bvh_joint_return ==
    /\ pc = "build_bvh_joint"
    /\ ~ChannelsLeft
    /\ ~ChildrenLeft
    /\ IF Len(stack) > 1
       THEN /\ stack' = AfterReturn
            /\ UNCHANGED <<pc, output>>
       ELSE /\ stack' = <<>>
            /\ output' = <<[root |-> Returned,
                            num_frames |-> mocap[1].num_frames,
                            frames |-> frames]>>
            /\ pc' = "done"
    /\ UNCHANGED <<cfg, checks, bvh, abort, channel_index, values,
                   value_range_min, value_range, packed_coefficients, cand,
                   best, mocap, frames>>

Next ==
    \/ build_mocap
    \/ build_joint_extract
    \/ build_joint_quantize
    \/ build_joint_candidate
    \/ build_joint_push
    \/ build_joint_child
    \/ build_joint_return
    \/ build_bvh
    \/ build_bvh_joint_channel
    \/ build_bvh_joint_child
    \/ build_bvh_joint_return

----------------------------------------------------------------------------
(* Inputs and specifications. *)

\* the longest animation, in frames
MaxFrames == 3

\* samples are base + 0 .. base + MaxOffset
MaxOffset == 2

\* the position the program starts from, whatever its input
Start ==
    /\ pc = "start"
    /\ abort = ""
    /\ channel_index = 0
    /\ stack = <<>>
    /\ values = <<>>
    /\ value_range_min = 0
    /\ value_range = 0
    /\ packed_coefficients = 0
    /\ cand = <<>>
    /\ best = <<>>
    /\ mocap = <<>>
    /\ frames = <<>>
    /\ output = <<>>

\* one channel on the root, and a child without channels that ends the chain
OneChannel == Joints(<<"XRotation">>, <<EndSite(<<>>)>>)

\* values of the three constants within their documented ranges (lines 22-25)
Configs ==
    {[bits |-> 1,  order |-> 1, cbits |-> 1],
     [bits |-> 2,  order |-> 1, cbits |-> 2],
     [bits |-> 3,  order |-> 2, cbits |-> 2],
     [bits |-> 7,  order |-> 1, cbits |-> 3],
     [bits |-> 8,  order |-> 1, cbits |-> 4],
     [bits |-> 16, order |-> 1, cbits |-> 2],
     [bits |-> 16, order |-> 2, cbits |-> 1]}

\* where a channel's samples lie: below zero and around it, and where f32 has
\* no odd integers any more
Bases == {-2, 16777217}

\* one channel of up to MaxFrames samples, under every configuration
Init ==
    /\ cfg \in Configs
    /\ checks \in BOOLEAN
    /\ \E n \in 0..MaxFrames, base \in Bases :
         \E column \in [1..n -> 0..MaxOffset] :
            bvh = [root |-> OneChannel,
                   frames |-> [f \in 1..n |-> <<base + column[f]>>]]
    /\ Start

Spec == Init /\ [][Next]_vars

\* the shipped constants, one channel whose quantized values reach both ends
\* of [0, 127] and its middle
ShippedSamples == {0, 1, 64, 127}

InitShipped ==
    /\ cfg = ShippedConfig
    /\ checks \in BOOLEAN
    /\ \E n \in 0..MaxFrames :
         \E column \in [1..n -> ShippedSamples] :
            bvh = [root |-> OneChannel,
                   frames |-> [f \in 1..n |-> <<column[f]>>]]
    /\ Start

SpecShipped == InitShipped /\ [][Next]_vars

\* the ramp 0.0, 10.0, 20.0, 30.0 at 8 bits, one tap, 8 coefficient bits
RampConfig == [bits |-> 8, order |-> 1, cbits |-> 8]

Ramp == <<0, 10, 20, 30>>

InitRamp ==
    /\ cfg = RampConfig
    /\ checks \in BOOLEAN
    /\ bvh = [root |-> OneChannel,
              frames |-> [f \in 1..Len(Ramp) |-> <<Ramp[f]>>]]
    /\ Start

SpecRamp == InitRamp /\ [][Next]_vars

\* skeletons: nested children, end sites, joints without channels, a joint
\* with an empty list of children, a lone end-site root
Skeletons ==
    {Joints(<<"XPosition", "YPosition">>,
            <<EndSite(<<"ZRotation">>),
              Joints(<<>>, <<EndSite(<<"XRotation">>)>>)>>),
     Joints(<<"ZRotation">>,
            <<Joints(<<"XRotation", "YRotation">>, <<EndSite(<<"ZRotation">>)>>),
              EndSite(<<>>)>>),
     Joints(<<"XPosition">>,
            <<EndSite(<<"XRotation">>), EndSite(<<"YRotation">>),
              EndSite(<<"ZRotation">>)>>),
     Joints(<<"YPosition">>, <<>>),
     EndSite(<<"XPosition", "YPosition", "ZPosition">>),
     EndSite(<<>>)}

RECURSIVE NumChannels(_), NumChannelsOfAll(_)
\* the channels of a skeleton: the length of a row of the parsed matrix
NumChannels(joint) ==
    Len(joint.channels) + NumChannelsOfAll(joint.children.joints)

NumChannelsOfAll(joints) ==
    IF joints = <<>> THEN 0
    ELSE NumChannels(Head(joints)) + NumChannelsOfAll(Tail(joints))

TreeConfig == [bits |-> 2, order |-> 1, cbits |-> 1]

\* every skeleton, with a matrix whose columns differ from each other in
\* their minimum and their range: column c holds 10 c + c d[f]
InitTree ==
    /\ cfg = TreeConfig
    /\ checks \in BOOLEAN
    /\ \E root \in Skeletons, n \in 0..MaxFrames :
         \E d \in [1..n -> 0..1] :
            bvh = [root |-> root,
                   frames |-> [f \in 1..n |->
                                  [c \in 1..NumChannels(root) |->
                                      10 * c + c * d[f]]]]
    /\ Start

SpecTree == InitTree /\ [][Next]_vars

----------------------------------------------------------------------------
(* Properties. *)

\* the search loop has run through every candidate; values holds the
\* quantized sequence and best the result of the search
SearchDone == pc = "search" /\ packed_coefficients = NumCandidates

\* the last candidate the search loop ran, while values is still the
\* quantized sequence
Ran == pc = "search" /\ cand # <<>>

RECURSIVE SumSquares(_)
SumSquares(residuals) ==
    IF residuals = <<>> THEN WideZero
    ELSE WideAdd(SumSquares(Tail(residuals)), Head(residuals) * Head(residuals))

Column(c) == [f \in 1..Len(bvh.frames) |-> bvh.frames[f][c]]

\* C1: the decoder recurrence, run on the coefficients and residuals the
\* encoder produced (for every candidate it ran, and for the one it keeps),
\* gives back the quantized sequence, value for value.
PredictiveRoundTrip ==
    /\ Ran =>
         DecodeValues(cand[1].coefficients, cand[1].residuals).values = values
    /\ SearchDone /\ best # <<>> =>
         DecodeValues(best[1].coefficients, best[1].residuals).values = values

\* a search over two taps at 16 bits has ended on a sequence of several
\* values, some of them above the i16 range, with a predictor that predicts
PredictiveRoundTripWitness ==
    /\ SearchDone
    /\ cfg.bits = 16 /\ cfg.order = 2
    /\ Len(values) >= 3
    /\ \E f \in 1..Len(values) : values[f] > 32767
    /\ \E k \in 1..cfg.order : best[1].coefficients[k] # 0
    /\ DecodeValues(best[1].coefficients, best[1].residuals).values = values

\* C4: the squared residuals the search keeps sum to no more than those of
\* the all-zero coefficient vector on the same quantized sequence.
SearchOptimality ==
    SearchDone /\ best # <<>> =>
        ~WideLess(SumSquares(RunCandidate(0, values).residuals),
                  SumSquares(best[1].residuals))

\* a search has ended with strictly less squared error than no prediction
SearchOptimalityWitness ==
    /\ SearchDone
    /\ best # <<>>
    /\ WideLess(SumSquares(best[1].residuals),
                SumSquares(RunCandidate(0, values).residuals))

\* the coefficient of tap k (from 1) in the packed integer p
TapBits(p) ==
    [k \in 1..cfg.order |->
        (p \div Pow2((k - 1) * cfg.cbits)) % Pow2(cfg.cbits)]

\* C9: the loop runs the packed integers 0, 1, ... in order, unpacking tap k
\* from bits [k cbits, (k + 1) cbits), and what it keeps is the candidate of
\* the smallest packed integer whose squared error is the minimum.
ExhaustiveMinimum ==
    /\ Ran => cand[1].coefficients = TapBits(packed_coefficients - 1)
    /\ SearchDone =>
         LET all == 0..(Pow2(cfg.order * cfg.cbits) - 1)
             run == [q \in all |-> RunCandidate(q, values)]
         IN  \E p \in all :
                /\ best = <<run[p]>>
                /\ best[1].coefficients = TapBits(p)
                /\ \A q \in all : ~WideLess(run[q].error, run[p].error)
                /\ \A q \in all : q < p => WideLess(run[p].error, run[q].error)

\* a search has ended where the minimum is reached by two candidates, the
\* first of which is not the first candidate
ExhaustiveMinimumWitness ==
    /\ SearchDone
    /\ best # <<>>
    /\ \E p, q \in 0..(NumCandidates - 1) :
          /\ 0 < p /\ p < q
          /\ best[1].coefficients = TapBits(p)
          /\ RunCandidate(q, values).error = best[1].error

\* what build_bvh_joint must write for column c in frame f: the column's own
\* minimum and range and its own quantized value
ExpectedSample(f, c) ==
    LET min == SeqMin(Column(c))
        range == SeqMax(Column(c)) - min
    IN  [base |-> F32(min),
         num  |-> Quantize(bvh.frames[f][c], min, range) * F32(range),
         den  |-> QuantMax]

\* C2: whatever the skeleton, the reconstructed matrix has a row per frame,
\* every row as long as the skeleton has channels, and column c holds what
\* was read from column c.
IndexStability ==
    pc = "done" =>
        /\ Len(frames) = Len(bvh.frames)
        /\ \A f \in 1..Len(frames) :
              /\ Len(frames[f]) = NumChannels(bvh.root)
              /\ \A c \in 1..Len(frames[f]) : frames[f][c] = ExpectedSample(f, c)

\* a skeleton with channels on the root, on an end-site joint and below a
\* joint without channels has been written back, over frames that differ
IndexStabilityWitness ==
    /\ pc = "done"
    /\ NumChannels(bvh.root) = 4
    /\ Len(bvh.root.channels) = 2
    /\ Len(frames) >= 2
    /\ \E f, g \in 1..Len(frames) : frames[f] # frames[g]
    /\ \A c, d \in 1..4 : c # d => frames[1][c] # frames[1][d]

\* C3: every value written back lies within value_range / (2^bits - 1) of
\* the sample it came from.
QuantizationBound ==
    pc = "done" =>
        \A f \in 1..Len(frames) : \A c \in 1..Len(frames[f]) :
            LET o == frames[f][c]
                range == SeqMax(Column(c)) - SeqMin(Column(c))
            IN  Abs(o.den * (o.base - bvh.frames[f][c]) + o.num) <= range

\* C5: a channel without frames is rejected; the process is not aborted.
EmptyChannelRejected == Len(bvh.frames) = 0 => pc # "panic"

\* C6: when a candidate's residuals are emitted, no quantized value, no
\* prediction and no difference left the i16 range, and each residual is
\* the difference itself, not the difference modulo 2^16.
ResidualOverflowDetected ==
    Ran =>
        \A f \in 1..Len(values) :
            LET difference == values[f] - cand[1].predictions[f]
            IN  /\ InI16(values[f])
                /\ InI16(cand[1].predictions[f])
                /\ InI16(difference)
                /\ cand[1].residuals[f] = difference

\* C8: a channel of identical samples quantizes to zeros, and the values
\* written back for it equal the constant.
DegenerateRange ==
    /\ pc = "search" /\ value_range = 0 => \A f \in 1..Len(values) : values[f] = 0
    /\ pc = "done" =>
         \A c \in 1..NumChannels(bvh.root) :
            SeqMax(Column(c)) = SeqMin(Column(c)) =>
                \A f \in 1..Len(frames) :
                    LET o == frames[f][c]
                    IN  o.den * (o.base - bvh.frames[f][c]) + o.num = 0

ShippedBounds ==
    /\ pc = "search" => \A f \in 1..Len(values) : values[f] \in 0..127
    /\ Ran =>
         LET d == DecodeValues(cand[1].coefficients, cand[1].residuals)
         IN  /\ ~cand[1].overflow
             /\ ~d.overflow
             /\ \A f \in 1..Len(values) :
                   /\ cand[1].predictions[f] \in (-127)..126
                   /\ cand[1].residuals[f] \in (-126)..254
                   /\ cand[1].residuals[f] = values[f] - cand[1].predictions[f]
                   /\ d.values[f] \in 0..127
    /\ pc = "panic" => Len(bvh.frames) = 0

\* a candidate has reached the lower end of the predictions and the upper
\* end of the residuals in one frame: 127 after 127 under the coefficient -128
ShippedBoundsWitness ==
    /\ Ran
    /\ cfg = ShippedConfig
    /\ \E f \in 1..Len(values) :
          /\ values[f] = 127
          /\ cand[1].predictions[f] = -127
          /\ cand[1].residuals[f] = 254

====
